---------------------------- MODULE Spec2Model ----------------------------
(***************************************************************************)
(* Model of the schedule search engine of src/app.py: the class            *)
(* ScheduleOptimizer (constructor, generate_optimized_schedule,            *)
(* suggest_improvements) and the loop of generate_schedules that calls it. *)
(*                                                                         *)
(* One invocation of generate_optimized_schedule is a "run".  Its local    *)
(* variables are modelled per run id r, so that several invocations on the *)
(* same optimizer (one after the other, or interleaved) can be described.  *)
(* A run advances one loop step at a time: function entry, the for header, *)
(* one whole pass of the while body (an "attempt"), the while exit, and    *)
(* the metrics computation with the return.                                *)
(*                                                                         *)
(* Numbers with one decimal (the rounded metrics) are kept in tenths.      *)
(***************************************************************************)
EXTENDS Integers, Sequences, FiniteSets, TLC

(***************************************************************************)
(* Bounds of the model.  The source has 6 slot labels, 6 day names and an  *)
(* attempt budget of 100; the model keeps the real lists and scales the    *)
(* number of entries that Init puts into a bounded optimizer.              *)
(***************************************************************************)
NumDays == 2
NumSlots == 2
AttemptBudget == 3
MaxRooms == 2
MaxBatches == 2
MaxFaculty == 2
MaxLoad == 2
MaxTarget == 2
MaxSubjects == 2
MaxCalls == 3
MaxSearch == 110000
MaxRunSearch == 64
MaxConflicts == 22
MaxOccupied == 4
MaxPool == 2
MaxWeeklyLoad == 21
MaxFacultyCount == 19
MaxRows == 6
Options == 3

Runs == {1, 2}

(***************************************************************************)
(* Literals of the source.                                                 *)
(***************************************************************************)
TimeSlotLabels ==
    <<"9:00-10:00", "10:00-11:00", "11:15-12:15", "12:15-1:15", "2:15-3:15", "3:15-4:15">>

DayNames == <<"Monday", "Tuesday", "Wednesday", "Thursday", "Friday", "Saturday">>

Surnames ==
    <<"Smith", "Johnson", "Williams", "Brown", "Davis", "Wilson",
      "Miller", "Moore", "Taylor", "Anderson", "Thomas", "Jackson",
      "White", "Harris", "Martin", "Thompson", "Garcia", "Martinez">>

faculty_names == [i \in 1..Len(Surnames) |-> "Dr. " \o Surnames[i]]

DefaultSubjects == <<"Math", "Physics", "Chemistry", "CS", "English">>

(***************************************************************************)
(* Python helpers.                                                         *)
(***************************************************************************)
Range(s) == {s[i] : i \in DOMAIN s}

Min(a, b) == IF a <= b THEN a ELSE b

Max(a, b) == IF a >= b THEN a ELSE b

\* s[:n] of a Python list: a negative n counts from the end.
Slice(s, n) ==
    LET k == IF n >= 0 THEN Min(n, Len(s)) ELSE Max(0, Len(s) + n)
    IN  SubSeq(s, 1, k)

\* dict.get(key, default)
Get(d, key, default) == IF key \in DOMAIN d THEN d[key] ELSE default

RECURSIVE SumOver(_, _)
SumOver(f, S) ==
    IF S = {} THEN 0
    ELSE LET x == CHOOSE y \in S : TRUE IN f[x] + SumOver(f, S \ {x})

SetMax(S) == CHOOSE x \in S : \A y \in S : y <= x

SetMin(S) == CHOOSE x \in S : \A y \in S : x <= y

VARIABLES
    config,                         \* self.config
    days,                           \* self.days
    time_slots,                     \* self.time_slots
    calls_left,                     \* invocations the callers may still start
    pc,                             \* position of each run
    option_num,
    subject_idx,                    \* position of the for loop in subjects
    classes_scheduled_for_subject,
    attempts,
    total_classes_scheduled,
    schedule,
    room_usage,
    batch_schedule,
    faculty_load,
    conflicts,
    attempts_made,                  \* history: passes of the while body begun in the run
    draw,                           \* << >>, or <<the values of the latest complete draw>>
    faculty_slots,                  \* the faculty set per (day, slot) of the lookup variant
    error,                          \* the exception a run ended with
    timetables,                     \* the results returned to each caller
    fn_args,                        \* arguments of a function called on its own
    fn_result,                      \* << >>, or <<v>> once that call returned v
    stored,                         \* committed status of the timetables rows, by id
    tx,                             \* the open transaction of each request handler
    lock                            \* the handler holding the write lock, or 0

objvars == <<config, days, time_slots>>

framevars ==
    <<pc, option_num, subject_idx, classes_scheduled_for_subject, attempts,
      total_classes_scheduled, schedule, room_usage, batch_schedule,
      faculty_load, conflicts, attempts_made, draw, faculty_slots, error>>

fnvars == <<fn_args, fn_result>>

dbvars == <<stored, tx, lock>>

vars == <<objvars, calls_left, framevars, timetables, fnvars, dbvars>>

(***************************************************************************)
(* The configuration as generate_optimized_schedule reads it.              *)
(***************************************************************************)
subjects == Get(config, "subject_list", DefaultSubjects)

classrooms == Get(config, "classrooms", 10)

batches == Get(config, "batches", 15)

faculty_count == Get(config, "faculty_count", 30)

max_classes_per_day == Get(config, "max_classes_day", 8)

classes_per_week == Get(config, "classes_per_week", 4)

max_daily_load == Get(config, "max_load", 6)

\* variant: as many names as faculty_count asks for, numbered past the list
FacultyPoolGenerated ==
    [i \in 1..Max(faculty_count, 0) |->
        IF i <= Len(faculty_names) THEN faculty_names[i] ELSE "Dr. Faculty " \o ToString(i)]

FacultyPool == Slice(faculty_names, faculty_count)

DaySet == Range(days)

SlotSet == Range(time_slots)

\* variant: the day list cut to five whatever days_week says
InitDaysAlwaysFive(cfg, names) == Slice(names, 5)

\* ScheduleOptimizer.__init__: the day list, cut to five for a 5-day week.
InitDays(cfg, names) ==
    IF Get(cfg, "days_week", 0) = 5 THEN Slice(names, 5) ELSE names


(***************************************************************************)
(* Python dicts: functions whose domain grows.                             *)
(***************************************************************************)
EmptyDict == [k \in {} |-> 0]

\* d[key] = value
DictSet(d, key, value) ==
    [k \in DOMAIN d \cup {key} |-> IF k = key THEN value ELSE d[k]]

(***************************************************************************)
(* Function entry: the tracking structures of a new run.                   *)
(***************************************************************************)
NewSchedule(r) == [d \in DaySet |-> EmptyDict]

\* variant: the room sets built once and kept from call to call
StaleRoomUsage(r) ==
    IF pc[r] = "done" THEN room_usage[r] ELSE [d \in DaySet |-> [s \in SlotSet |-> {}]]

NewRoomUsage(r) == [d \in DaySet |-> [s \in SlotSet |-> {}]]

NewBatchSchedule(r) == [d \in DaySet |-> [s \in SlotSet |-> {}]]

NewFacultyLoad(r) == [f \in Range(FacultyPool) |-> [d \in DaySet |-> 0]]

NewConflicts(r) == << >>

(***************************************************************************)
(* The names and the four checks of one attempt.                           *)
(***************************************************************************)
RoomName(room_num) == "Room " \o ToString(room_num)

BatchName(batch_num) == "Batch " \o ToString(batch_num)

\* variant: the grid entry keyed by the subject alone
ClassIdSubjectOnly(subject, batch_name, room_name) == subject

ClassId(subject, batch_name, room_name) ==
    subject \o "_" \o batch_name \o "_" \o room_name

\* variant: the room looked up in the batch set
RoomOccupiedInBatchSet(r, day, slot, room_name) ==
    room_name \in batch_schedule[r][day][slot]

RoomOccupied(r, day, slot, room_name) == room_name \in room_usage[r][day][slot]

\* variant: the batch looked up in the room set
BatchTakenInRoomSet(r, day, slot, batch_name) ==
    batch_name \in room_usage[r][day][slot]

BatchTaken(r, day, slot, batch_name) == batch_name \in batch_schedule[r][day][slot]

\* variant: > for >=
FacultyOverloadedStrict(r, day, faculty) ==
    faculty_load[r][faculty][day] > max_daily_load

FacultyOverloaded(r, day, faculty) == faculty_load[r][faculty][day] >= max_daily_load

\* variant: the slot looked up in schedule instead of schedule[day]
FacultyBusySlotInSchedule(r, day, slot, faculty) ==
    /\ day \in DOMAIN schedule[r]
    /\ slot \in DOMAIN schedule[r]
    /\ \E k \in DOMAIN schedule[r][day][slot] :
           schedule[r][day][slot][k].faculty = faculty

\* the scan of the sessions already placed in schedule[day][slot]
\* variant: the scan compares the batch of each session with the faculty member
FacultyBusyWrongField(r, day, slot, faculty) ==
    /\ day \in DOMAIN schedule[r]
    /\ slot \in DOMAIN schedule[r][day]
    /\ \E k \in DOMAIN schedule[r][day][slot] :
           schedule[r][day][slot][k].batch = faculty

FacultyBusy(r, day, slot, faculty) ==
    /\ day \in DOMAIN schedule[r]
    /\ slot \in DOMAIN schedule[r][day]
    /\ \E k \in DOMAIN schedule[r][day][slot] :
           schedule[r][day][slot][k].faculty = faculty

\* variant: an elif chain that stops at the first failing check
ConflictReasonsFirstOnly(r, day, slot, room_name, batch_name, faculty) ==
    IF RoomOccupied(r, day, slot, room_name) THEN <<"Room occupied">>
    ELSE IF BatchTaken(r, day, slot, batch_name) THEN <<"Batch has another class">>
    ELSE IF FacultyOverloaded(r, day, faculty) THEN <<"Faculty overloaded">>
    ELSE IF FacultyBusy(r, day, slot, faculty) THEN <<"Faculty conflict">>
    ELSE << >>

ConflictReasons(r, day, slot, room_name, batch_name, faculty) ==
    (IF RoomOccupied(r, day, slot, room_name) THEN <<"Room occupied">> ELSE << >>)
    \o (IF BatchTaken(r, day, slot, batch_name) THEN <<"Batch has another class">> ELSE << >>)
    \o (IF FacultyOverloaded(r, day, faculty) THEN <<"Faculty overloaded">> ELSE << >>)
    \o (IF FacultyBusy(r, day, slot, faculty) THEN <<"Faculty conflict">> ELSE << >>)

CanSchedule(r, day, slot, room_name, batch_name, faculty) ==
    /\ ~RoomOccupied(r, day, slot, room_name)
    /\ ~BatchTaken(r, day, slot, batch_name)
    /\ ~FacultyOverloaded(r, day, faculty)
    /\ ~FacultyBusy(r, day, slot, faculty)

(***************************************************************************)
(* The lookup variant of the faculty check, run beside the scan on the     *)
(* same draws: a set of committed faculty per (day, slot), created and     *)
(* filled like room_usage and batch_schedule, and decided on its own.      *)
(***************************************************************************)
NewFacultySlots(r) == [d \in DaySet |-> [s \in SlotSet |-> {}]]

FacultyBusyLookup(r, day, slot, faculty) == faculty \in faculty_slots[r][day][slot]

ConflictReasonsLookup(r, day, slot, room_name, batch_name, faculty) ==
    (IF RoomOccupied(r, day, slot, room_name) THEN <<"Room occupied">> ELSE << >>)
    \o (IF BatchTaken(r, day, slot, batch_name) THEN <<"Batch has another class">> ELSE << >>)
    \o (IF FacultyOverloaded(r, day, faculty) THEN <<"Faculty overloaded">> ELSE << >>)
    \o (IF FacultyBusyLookup(r, day, slot, faculty) THEN <<"Faculty conflict">> ELSE << >>)

CanScheduleLookup(r, day, slot, room_name, batch_name, faculty) ==
    /\ ~RoomOccupied(r, day, slot, room_name)
    /\ ~BatchTaken(r, day, slot, batch_name)
    /\ ~FacultyOverloaded(r, day, faculty)
    /\ ~FacultyBusyLookup(r, day, slot, faculty)

\* variant: <= for < on the attempt budget
LoopConditionOffByOne(r) ==
    /\ classes_scheduled_for_subject[r] < classes_per_week
    /\ attempts[r] <= AttemptBudget

\* variant: <= for < on the target
LoopConditionInclusiveTarget(r) ==
    /\ classes_scheduled_for_subject[r] <= classes_per_week
    /\ attempts[r] < AttemptBudget

\* the condition of the while loop
LoopCondition(r) ==
    /\ classes_scheduled_for_subject[r] < classes_per_week
    /\ attempts[r] < AttemptBudget

\* random.randint(1, n) and random.choice(seq) raise on an empty range
DrawRaises == classrooms < 1 \/ batches < 1 \/ FacultyPool = << >>

DrawError ==
    IF classrooms < 1 \/ batches < 1 THEN "ValueError" ELSE "IndexError"

(***************************************************************************)
(* Actions of a run.                                                       *)
(***************************************************************************)
Call(r) ==
    /\ pc[r] \in {"idle", "done"}
    /\ calls_left > 0
    /\ calls_left' = calls_left - 1
    /\ pc' = [pc EXCEPT ![r] = "for"]
    /\ option_num' = [option_num EXCEPT ![r] = Len(timetables[r]) + 1]
    /\ subject_idx' = [subject_idx EXCEPT ![r] = 0]
    /\ classes_scheduled_for_subject' = [classes_scheduled_for_subject EXCEPT ![r] = 0]
    /\ attempts' = [attempts EXCEPT ![r] = 0]
    /\ total_classes_scheduled' = [total_classes_scheduled EXCEPT ![r] = 0]
    /\ schedule' = [schedule EXCEPT ![r] = NewSchedule(r)]
    /\ room_usage' = [room_usage EXCEPT ![r] = NewRoomUsage(r)]
    /\ batch_schedule' = [batch_schedule EXCEPT ![r] = NewBatchSchedule(r)]
    /\ faculty_load' = [faculty_load EXCEPT ![r] = NewFacultyLoad(r)]
    /\ conflicts' = [conflicts EXCEPT ![r] = NewConflicts(r)]
    /\ attempts_made' = [attempts_made EXCEPT ![r] = 0]
    /\ draw' = [draw EXCEPT ![r] = << >>]
    /\ faculty_slots' = [faculty_slots EXCEPT ![r] = NewFacultySlots(r)]
    /\ error' = [error EXCEPT ![r] = "none"]
    /\ UNCHANGED <<objvars, dbvars, fnvars, timetables>>

NextSubject(r) ==
    /\ pc[r] = "for"
    /\ subject_idx[r] < Len(subjects)
    /\ subject_idx' = [subject_idx EXCEPT ![r] = @ + 1]
    /\ classes_scheduled_for_subject' = [classes_scheduled_for_subject EXCEPT ![r] = 0]
    /\ attempts' = [attempts EXCEPT ![r] = 0]
    /\ pc' = [pc EXCEPT ![r] = "while"]
    /\ UNCHANGED <<objvars, dbvars, fnvars, draw, faculty_slots, calls_left, option_num, total_classes_scheduled, schedule,
                   room_usage, batch_schedule, faculty_load, conflicts, attempts_made, error,
                   timetables>>

ExitWhile(r) ==
    /\ pc[r] = "while"
    /\ ~LoopCondition(r)
    /\ pc' = [pc EXCEPT ![r] = "for"]
    /\ UNCHANGED <<objvars, dbvars, fnvars, draw, faculty_slots, calls_left, option_num, subject_idx,
                   classes_scheduled_for_subject, attempts, total_classes_scheduled,
                   schedule, room_usage, batch_schedule, faculty_load, conflicts,
                   attempts_made, error, timetables>>

\* variant: the cell is replaced by a dict that holds the new session alone
CommitReplacingCell(r, day, slot, room_name, batch_name, faculty) ==
    LET subject == subjects[subject_idx[r]]
        class_id == ClassId(subject, batch_name, room_name)
        session == [subject |-> subject, room |-> room_name,
                    batch |-> batch_name, faculty |-> faculty]
    IN  /\ schedule' = [schedule EXCEPT ![r][day] = DictSet(@, slot, DictSet(EmptyDict, class_id, session))]
        /\ room_usage' = [room_usage EXCEPT ![r][day][slot] = @ \cup {room_name}]
        /\ batch_schedule' = [batch_schedule EXCEPT ![r][day][slot] = @ \cup {batch_name}]
        /\ faculty_load' = [faculty_load EXCEPT ![r][faculty][day] = @ + 1]
        /\ classes_scheduled_for_subject' = [classes_scheduled_for_subject EXCEPT ![r] = @ + 1]
        /\ total_classes_scheduled' = [total_classes_scheduled EXCEPT ![r] = @ + 1]
        /\ UNCHANGED conflicts

\* variant: the batch of the session is not marked
CommitWithoutBatchMark(r, day, slot, room_name, batch_name, faculty) ==
    LET subject == subjects[subject_idx[r]]
        cell == IF slot \in DOMAIN schedule[r][day] THEN schedule[r][day][slot] ELSE EmptyDict
        class_id == ClassId(subject, batch_name, room_name)
        session == [subject |-> subject, room |-> room_name,
                    batch |-> batch_name, faculty |-> faculty]
    IN  /\ schedule' = [schedule EXCEPT ![r][day] = DictSet(@, slot, DictSet(cell, class_id, session))]
        /\ room_usage' = [room_usage EXCEPT ![r][day][slot] = @ \cup {room_name}]
        /\ faculty_load' = [faculty_load EXCEPT ![r][faculty][day] = @ + 1]
        /\ classes_scheduled_for_subject' = [classes_scheduled_for_subject EXCEPT ![r] = @ + 1]
        /\ total_classes_scheduled' = [total_classes_scheduled EXCEPT ![r] = @ + 1]
        /\ UNCHANGED <<conflicts, batch_schedule>>

\* the session written into schedule[day][slot]
Commit(r, day, slot, room_name, batch_name, faculty) ==
    LET subject == subjects[subject_idx[r]]
        cell == IF slot \in DOMAIN schedule[r][day] THEN schedule[r][day][slot] ELSE EmptyDict
        class_id == ClassId(subject, batch_name, room_name)
        session == [subject |-> subject, room |-> room_name,
                    batch |-> batch_name, faculty |-> faculty]
    IN  /\ schedule' = [schedule EXCEPT ![r][day] = DictSet(@, slot, DictSet(cell, class_id, session))]
        /\ room_usage' = [room_usage EXCEPT ![r][day][slot] = @ \cup {room_name}]
        /\ batch_schedule' = [batch_schedule EXCEPT ![r][day][slot] = @ \cup {batch_name}]
        /\ faculty_load' = [faculty_load EXCEPT ![r][faculty][day] = @ + 1]
        /\ classes_scheduled_for_subject' = [classes_scheduled_for_subject EXCEPT ![r] = @ + 1]
        /\ total_classes_scheduled' = [total_classes_scheduled EXCEPT ![r] = @ + 1]
        /\ UNCHANGED conflicts

\* variant: the rejected draw marks its room as used
RejectMarksRoom(r, day, slot, room_name, batch_name, faculty) ==
    LET entry == [subject |-> subjects[subject_idx[r]], day |-> day, slot |-> slot,
                  reasons |-> ConflictReasons(r, day, slot, room_name, batch_name, faculty)]
    IN  /\ conflicts' = [conflicts EXCEPT ![r] = Append(@, entry)]
        /\ room_usage' = [room_usage EXCEPT ![r][day][slot] = @ \cup {room_name}]
        /\ UNCHANGED <<schedule, batch_schedule, faculty_load,
                       classes_scheduled_for_subject, total_classes_scheduled>>

\* the record appended to conflicts
Reject(r, day, slot, room_name, batch_name, faculty) ==
    LET entry == [subject |-> subjects[subject_idx[r]], day |-> day, slot |-> slot,
                  reasons |-> ConflictReasons(r, day, slot, room_name, batch_name, faculty)]
    IN  /\ conflicts' = [conflicts EXCEPT ![r] = Append(@, entry)]
        /\ UNCHANGED <<schedule, room_usage, batch_schedule, faculty_load,
                       classes_scheduled_for_subject, total_classes_scheduled>>

\* one pass of the while body whose draws succeed
Attempt(r) ==
    /\ pc[r] = "while"
    /\ LoopCondition(r)
    /\ ~DrawRaises
    /\ attempts' = [attempts EXCEPT ![r] = @ + 1]
    /\ attempts_made' = [attempts_made EXCEPT ![r] = @ + 1]
    /\ \E day \in DaySet, slot \in SlotSet, room_num \in 1..classrooms,
          batch_num \in 1..batches, faculty \in Range(FacultyPool) :
           /\ draw' = [draw EXCEPT ![r] = <<[day |-> day, slot |-> slot,
                                             room_name |-> RoomName(room_num),
                                             batch_name |-> BatchName(batch_num),
                                             faculty |-> faculty]>>]
           /\ IF CanSchedule(r, day, slot, RoomName(room_num), BatchName(batch_num), faculty)
              THEN Commit(r, day, slot, RoomName(room_num), BatchName(batch_num), faculty)
              ELSE Reject(r, day, slot, RoomName(room_num), BatchName(batch_num), faculty)
           /\ faculty_slots' =
                  IF CanScheduleLookup(r, day, slot, RoomName(room_num), BatchName(batch_num), faculty)
                  THEN [faculty_slots EXCEPT ![r][day][slot] = @ \cup {faculty}]
                  ELSE faculty_slots
    /\ UNCHANGED <<objvars, dbvars, fnvars, calls_left, pc, option_num, subject_idx, error, timetables>>

\* one pass of the while body in which a draw raises
AttemptRaises(r) ==
    /\ pc[r] = "while"
    /\ LoopCondition(r)
    /\ DrawRaises
    /\ attempts' = [attempts EXCEPT ![r] = @ + 1]
    /\ attempts_made' = [attempts_made EXCEPT ![r] = @ + 1]
    /\ pc' = [pc EXCEPT ![r] = "raised"]
    /\ error' = [error EXCEPT ![r] = DrawError]
    /\ UNCHANGED <<objvars, dbvars, fnvars, draw, faculty_slots, calls_left, option_num, subject_idx,
                   classes_scheduled_for_subject, total_classes_scheduled, schedule,
                   room_usage, batch_schedule, faculty_load, conflicts, timetables>>

(***************************************************************************)
(* Metrics.  The rounded values are kept in tenths: 28 stands for 2.8.     *)
(***************************************************************************)
\* round(n / d * 10) to the nearest integer, ties to even, for n >= 0 and d > 0
RoundHalfEven(n, d) ==
    LET q == n \div d
        m == n % d
    IN  IF 2 * m < d THEN q
        ELSE IF 2 * m > d THEN q + 1
        ELSE IF q % 2 = 0 THEN q ELSE q + 1

\* round(n / d, 1) in tenths; a zero numerator over a negative denominator is 0
Round1(n, d) == IF d > 0 THEN RoundHalfEven(10 * n, d) ELSE 0

total_possible_slots == Len(days) * Len(time_slots) * classrooms

\* sum(len(room_usage[day][slot]) for day in self.days for slot in self.time_slots)
OccupiedCells(r) ==
    LET n == [c \in DaySet \X SlotSet |-> Cardinality(room_usage[r][c[1]][c[2]])]
    IN  SumOver(n, DaySet \X SlotSet)

\* sum(faculty_load[f].values())
WeeklyLoad(r, f) == SumOver(faculty_load[r][f], DOMAIN faculty_load[r][f])

faculty_loads(r) == [f \in DOMAIN faculty_load[r] |-> WeeklyLoad(r, f)]

\* variant: the members without any load are left out of the list
BalanceOfLoaded(weekly) ==
    LET loads == Range(weekly) \ {0}
    IN  IF loads # {}
        THEN Max(0, 100 - (SetMax(loads) - SetMin(loads)) * 5)
        ELSE 100

\* faculty_balance for the weekly totals, a function of the faculty names
BalanceOf(weekly) ==
    IF DOMAIN weekly # {}
    THEN LET loads == Range(weekly)
             load_variance == SetMax(loads) - SetMin(loads)
         IN  Max(0, 100 - load_variance * 5)
    ELSE 100

faculty_balance(r) == BalanceOf(faculty_loads(r))

\* the conflict term without its floor
ConflictTermUnfloored(conflict_count) == 100 - conflict_count * 5

ConflictTerm(conflict_count) == Max(0, 100 - conflict_count * 5)

\* variant: the utilization weighted 0.4 instead of 0.3
OptimizationScoreOverweighted(occupied, total, balance, conflict_count) ==
    LET rest == 3 * balance + 4 * ConflictTerm(conflict_count)
    IN  IF total > 0 THEN RoundHalfEven(400 * occupied + rest * total, total) ELSE rest

\* round(optimization_score, 1) in tenths: ten times the score is
\* 300 * occupied / total + 3 * balance + 4 * ConflictTerm
OptimizationScore(occupied, total, balance, conflict_count) ==
    LET rest == 3 * balance + 4 * ConflictTerm(conflict_count)
    IN  IF total > 0 THEN RoundHalfEven(300 * occupied + rest * total, total) ELSE rest

Metrics(r) ==
    [classroom_utilization |-> Round1(100 * OccupiedCells(r), total_possible_slots),
     faculty_load_balance |-> 10 * faculty_balance(r),
     conflict_count |-> Len(conflicts[r]),
     optimization_score |->
         OptimizationScore(OccupiedCells(r), total_possible_slots, faculty_balance(r),
                           Len(conflicts[r])),
     total_classes_scheduled |-> total_classes_scheduled[r],
     faculty_utilization |->
         IF DOMAIN faculty_load[r] # {}
         THEN Round1(SumOver(faculty_loads(r), DOMAIN faculty_load[r]),
                     Cardinality(DOMAIN faculty_load[r]))
         ELSE 0]

Timetable(r) ==
    [id |-> option_num[r],
     name |-> "Timetable Option " \o ToString(option_num[r]),
     schedule |-> schedule[r],
     metrics |-> Metrics(r),
     conflicts |-> conflicts[r]]

\* the for loop is over: metrics and return
Return(r) ==
    /\ pc[r] = "for"
    /\ subject_idx[r] = Len(subjects)
    /\ total_possible_slots # 0
    /\ pc' = [pc EXCEPT ![r] = "done"]
    /\ timetables' = [timetables EXCEPT ![r] = Append(@, Timetable(r))]
    /\ UNCHANGED <<objvars, dbvars, fnvars, draw, faculty_slots, calls_left, option_num, subject_idx,
                   classes_scheduled_for_subject, attempts, total_classes_scheduled,
                   schedule, room_usage, batch_schedule, faculty_load, conflicts,
                   attempts_made, error>>

\* the for loop is over and the utilization divides by zero
ReturnRaises(r) ==
    /\ pc[r] = "for"
    /\ subject_idx[r] = Len(subjects)
    /\ total_possible_slots = 0
    /\ pc' = [pc EXCEPT ![r] = "raised"]
    /\ error' = [error EXCEPT ![r] = "ZeroDivisionError"]
    /\ UNCHANGED <<objvars, dbvars, fnvars, draw, faculty_slots, calls_left, option_num, subject_idx,
                   classes_scheduled_for_subject, attempts, total_classes_scheduled,
                   schedule, room_usage, batch_schedule, faculty_load, conflicts,
                   attempts_made, timetables>>

(***************************************************************************)
(* suggest_improvements, on metrics in tenths.                             *)
(***************************************************************************)
\* suggest_improvements with comparisons that include the thresholds
suggest_improvements_inclusive(metrics) ==
    (IF metrics.classroom_utilization <= 700
     THEN <<"Consider reducing the number of classrooms or increasing class frequency">>
     ELSE << >>)
    \o (IF metrics.faculty_load_balance <= 800
        THEN <<"Redistribute faculty workload for better balance">> ELSE << >>)
    \o (IF metrics.conflict_count >= 5
        THEN <<"Review and resolve scheduling conflicts manually">> ELSE << >>)
    \o (IF metrics.optimization_score <= 850
        THEN <<"Consider adjusting time slots or adding more resources">> ELSE << >>)

suggest_improvements(metrics) ==
    (IF metrics.classroom_utilization < 700
     THEN <<"Consider reducing the number of classrooms or increasing class frequency">>
     ELSE << >>)
    \o (IF metrics.faculty_load_balance < 800
        THEN <<"Redistribute faculty workload for better balance">> ELSE << >>)
    \o (IF metrics.conflict_count > 5
        THEN <<"Review and resolve scheduling conflicts manually">> ELSE << >>)
    \o (IF metrics.optimization_score < 850
        THEN <<"Consider adjusting time slots or adding more resources">> ELSE << >>)

(***************************************************************************)
(* The optimizer after construction, and the callers.                      *)
(***************************************************************************)
SubjectNames == <<"Math", "Physics", "Chemistry">>

\* an upper estimate of the number of draw sequences of one run, cut off
\* above MaxSearch
RECURSIVE Power(_, _)
Power(b, e) == IF e = 0 THEN 1 ELSE Min(MaxSearch + 1, b * Power(b, e - 1))

SearchSize(cfg, nd, ns) ==
    LET d == nd * ns * Max(cfg.classrooms, 0) * Max(cfg.batches, 0)
                 * Len(Slice(faculty_names, cfg.faculty_count))
        n == IF cfg.classes_per_week > 0 THEN Len(cfg.subject_list) * AttemptBudget ELSE 0
    IN  IF d = 0 THEN 1 ELSE Power(d, n)

Configs ==
    {cfg \in [subject_list : {Slice(SubjectNames, n) : n \in 0..MaxSubjects},
              classrooms : -1..MaxRooms,
              batches : -1..MaxBatches,
              faculty_count : -1..MaxFaculty,
              max_load : -1..MaxLoad,
              classes_per_week : -1..MaxTarget,
              days_week : {6}] :
         SearchSize(cfg, NumDays, NumSlots) <= MaxSearch}

Handlers == {1, 2}

NoTransaction == [pc |-> "idle", view |-> << >>, timetable_id |-> 0, inserted |-> 0]

\* the timetables table after init_db, and no request in progress
EmptyStore ==
    /\ stored = << >>
    /\ tx = [h \in Handlers |-> NoTransaction]
    /\ lock = 0

\* no function has been called on its own
NoFunctionCall == fn_args = << >> /\ fn_result = << >>

IdleFrame ==
    /\ pc = [r \in Runs |-> "idle"]
    /\ option_num = [r \in Runs |-> 0]
    /\ subject_idx = [r \in Runs |-> 0]
    /\ classes_scheduled_for_subject = [r \in Runs |-> 0]
    /\ attempts = [r \in Runs |-> 0]
    /\ total_classes_scheduled = [r \in Runs |-> 0]
    /\ schedule = [r \in Runs |-> EmptyDict]
    /\ room_usage = [r \in Runs |-> EmptyDict]
    /\ batch_schedule = [r \in Runs |-> EmptyDict]
    /\ faculty_load = [r \in Runs |-> EmptyDict]
    /\ conflicts = [r \in Runs |-> << >>]
    /\ attempts_made = [r \in Runs |-> 0]
    /\ draw = [r \in Runs |-> << >>]
    /\ faculty_slots = [r \in Runs |-> EmptyDict]
    /\ error = [r \in Runs |-> "none"]
    /\ timetables = [r \in Runs |-> << >>]

\* ScheduleOptimizer(config_data), before any call
Init ==
    /\ config \in Configs
    /\ time_slots = Slice(TimeSlotLabels, NumSlots)
    /\ days = InitDays(config, Slice(DayNames, NumDays))
    /\ calls_left = 1
    /\ IdleFrame
    /\ EmptyStore
    /\ NoFunctionCall

Step(r) ==
    \/ Call(r)
    \/ NextSubject(r)
    \/ Attempt(r)
    \/ AttemptRaises(r)
    \/ ExitWhile(r)
    \/ Return(r)
    \/ ReturnRaises(r)

\* one call of generate_optimized_schedule on one optimizer
Next == Step(1)

Spec == Init /\ [][Next]_vars

\* the configurations of the optimizer shared by several calls: one subject,
\* one batch, one faculty member with a daily load of one, and no or one room
RunConfigs ==
    {cfg \in Configs :
         /\ Len(cfg.subject_list) = 1
         /\ cfg.classrooms \in 0..1
         /\ cfg.batches = 1
         /\ cfg.faculty_count = 1
         /\ cfg.max_load = 1
         /\ cfg.classes_per_week >= 0
         /\ SearchSize(cfg, NumDays, NumSlots) <= MaxRunSearch}

\* one optimizer whose callers make up to MaxCalls calls, two at a time
InitRuns ==
    /\ config \in RunConfigs
    /\ time_slots = Slice(TimeSlotLabels, NumSlots)
    /\ days = InitDays(config, Slice(DayNames, NumDays))
    /\ calls_left = MaxCalls
    /\ IdleFrame
    /\ EmptyStore
    /\ NoFunctionCall

NextRuns == \E r \in Runs : Step(r)

SpecRuns == InitRuns /\ [][NextRuns]_vars

(***************************************************************************)
(* One call on an optimizer with the full lists of days and time slots,    *)
(* for one subject, one batch and one faculty member.                      *)
(***************************************************************************)
WeekConfigs ==
    [subject_list : {<<"Math">>},
     classrooms : 0..1,
     batches : {1},
     faculty_count : {1},
     max_load : {6},
     classes_per_week : 0..1,
     days_week : {5, 6}]

InitWeek ==
    /\ config \in WeekConfigs
    /\ time_slots = TimeSlotLabels
    /\ days = InitDays(config, DayNames)
    /\ calls_left = 1
    /\ IdleFrame
    /\ EmptyStore
    /\ NoFunctionCall

SpecWeek == InitWeek /\ [][Next]_vars

(***************************************************************************)
(* One call for one subject, one batch and a weekly target of at most 1,   *)
(* with every faculty count up to MaxFacultyCount, the count 30 and no     *)
(* count at all.                                                           *)
(***************************************************************************)
PoolConfigs ==
    LET counted == [subject_list : {<<"Math">>},
                    classrooms : 0..1,
                    batches : {1},
                    faculty_count : 0..MaxFacultyCount \cup {30},
                    max_load : {1},
                    classes_per_week : 0..1,
                    days_week : {6}]
    IN  counted \cup {[k \in DOMAIN cfg \ {"faculty_count"} |-> cfg[k]] : cfg \in counted}

InitPool ==
    /\ config \in PoolConfigs
    /\ time_slots = Slice(TimeSlotLabels, NumSlots)
    /\ days = InitDays(config, Slice(DayNames, NumDays))
    /\ calls_left = 1
    /\ IdleFrame
    /\ EmptyStore
    /\ NoFunctionCall

SpecPool == InitPool /\ [][Next]_vars

(***************************************************************************)
(* The timetables table under generate_schedules and approve_timetable.    *)
(* Each request works on its own connection: its first write takes the     *)
(* write lock of the database and starts a transaction, whose changes      *)
(* (view) become the stored rows at conn.commit().  A request that ends     *)
(* with an exception leaves its transaction uncommitted.                   *)
(***************************************************************************)
\* variant: no row is archived
ArchivedNone(rows) == rows

\* UPDATE timetables SET status = 'archived' WHERE status = 'approved'
Archived(rows) ==
    [i \in DOMAIN rows |-> IF rows[i] = "approved" THEN "archived" ELSE rows[i]]

\* UPDATE timetables SET status = 'approved' ... WHERE id = timetable_id
Approved(rows, timetable_id) ==
    [i \in DOMAIN rows |-> IF i = timetable_id THEN "approved" ELSE rows[i]]

\* approve_timetable, first UPDATE; timetable_id 0 stands for a missing id
ApproveArchive(h, timetable_id) ==
    /\ tx[h].pc = "idle"
    /\ lock = 0
    /\ lock' = h
    /\ tx' = [tx EXCEPT ![h] = [pc |-> "archived", view |-> Archived(stored),
                                 timetable_id |-> timetable_id, inserted |-> 0]]
    /\ UNCHANGED <<stored, objvars, calls_left, framevars, timetables, fnvars>>

\* approve_timetable, second UPDATE
ApproveSelected(h) ==
    /\ tx[h].pc = "archived"
    /\ tx' = [tx EXCEPT ![h].pc = "selected",
                        ![h].view = Approved(tx[h].view, tx[h].timetable_id)]
    /\ UNCHANGED <<stored, lock, objvars, calls_left, framevars, timetables, fnvars>>

\* generate_schedules: one option generated and its row inserted
GenerateInsert(h) ==
    /\ \/ /\ tx[h].pc = "idle"
          /\ lock = 0
          /\ Len(stored) + Options <= MaxRows
          /\ lock' = h
          /\ tx' = [tx EXCEPT ![h] = [pc |-> "inserting", view |-> Append(stored, "draft"),
                                       timetable_id |-> 0, inserted |-> 1]]
       \/ /\ tx[h].pc = "inserting"
          /\ tx[h].inserted < Options
          /\ tx' = [tx EXCEPT ![h].view = Append(@, "draft"), ![h].inserted = @ + 1]
          /\ UNCHANGED lock
    /\ UNCHANGED <<stored, objvars, calls_left, framevars, timetables, fnvars>>

\* generate_schedules: generate_optimized_schedule raises after some rows
GenerateRaises(h) ==
    /\ tx[h].pc = "inserting"
    /\ tx[h].inserted < Options
    /\ lock' = 0
    /\ tx' = [tx EXCEPT ![h] = NoTransaction]
    /\ UNCHANGED <<stored, objvars, calls_left, framevars, timetables, fnvars>>

\* conn.commit() of either request
CommitRequest(h) ==
    /\ \/ tx[h].pc = "selected"
       \/ tx[h].pc = "inserting" /\ tx[h].inserted = Options
    /\ stored' = tx[h].view
    /\ lock' = 0
    /\ tx' = [tx EXCEPT ![h] = NoTransaction]
    /\ UNCHANGED <<objvars, calls_left, framevars, timetables, fnvars>>

InitStore ==
    /\ config = EmptyDict
    /\ time_slots = TimeSlotLabels
    /\ days = InitDays(config, DayNames)
    /\ calls_left = 0
    /\ IdleFrame
    /\ EmptyStore
    /\ NoFunctionCall

NextStore ==
    \E h \in Handlers :
        \/ \E timetable_id \in 0..(MaxRows + 1) : ApproveArchive(h, timetable_id)
        \/ ApproveSelected(h)
        \/ GenerateInsert(h)
        \/ GenerateRaises(h)
        \/ CommitRequest(h)

SpecStore == InitStore /\ [][NextStore]_vars

(***************************************************************************)
(* get_suggestions: suggest_improvements called, on an optimizer built    *)
(* from an empty configuration, with the metrics of a stored timetable.   *)
(***************************************************************************)
\* stored metrics, in tenths, below, at and above each threshold
StoredMetrics ==
    [classroom_utilization : {500, 699, 700, 701, 900},
     faculty_load_balance : {600, 799, 800, 801, 900},
     conflict_count : {2, 4, 5, 6, 10},
     optimization_score : {700, 849, 850, 851, 900}]

InitSuggestions ==
    /\ config = EmptyDict
    /\ time_slots = TimeSlotLabels
    /\ days = InitDays(config, DayNames)
    /\ calls_left = 0
    /\ IdleFrame
    /\ EmptyStore
    /\ fn_args \in StoredMetrics
    /\ fn_result = << >>

get_suggestions ==
    /\ fn_result = << >>
    /\ fn_result' = <<suggest_improvements(fn_args)>>
    /\ UNCHANGED <<objvars, dbvars, calls_left, framevars, timetables, fn_args>>

SpecSuggestions == InitSuggestions /\ [][get_suggestions]_vars

(***************************************************************************)
(* The optimization score as a function of the occupied cells, the cell    *)
(* total, the load balance and the number of rejected attempts.            *)
(***************************************************************************)
\* cell totals of 2 x 2, 6 x 6 and 6 x 6 x 10 grids; balances are multiples of 5
ScoreInputs ==
    {a \in [occupied : 0..MaxOccupied,
            total : {4, 36, 360},
            balance : {5 * k : k \in 0..20},
            conflict_count : 0..MaxConflicts] : a.occupied <= a.total}

ScoreOf(a) == OptimizationScore(a.occupied, a.total, a.balance, a.conflict_count)

InitScore ==
    /\ config = EmptyDict
    /\ time_slots = TimeSlotLabels
    /\ days = InitDays(config, DayNames)
    /\ calls_left = 0
    /\ IdleFrame
    /\ EmptyStore
    /\ fn_args \in ScoreInputs
    /\ fn_result = << >>

ComputeScore ==
    /\ fn_result = << >>
    /\ fn_result' = <<ScoreOf(fn_args)>>
    /\ UNCHANGED <<objvars, dbvars, calls_left, framevars, timetables, fn_args>>

\* the score again, with one more rejected attempt and nothing else changed
ComputeScoreOneMoreConflict ==
    /\ fn_result # << >>
    /\ fn_args.conflict_count < MaxConflicts
    /\ fn_args' = [fn_args EXCEPT !.conflict_count = @ + 1]
    /\ fn_result' = <<ScoreOf(fn_args')>>
    /\ UNCHANGED <<objvars, dbvars, calls_left, framevars, timetables>>

NextScore == ComputeScore \/ ComputeScoreOneMoreConflict

SpecScore == InitScore /\ [][NextScore]_vars

(***************************************************************************)
(* The load balance as a function of the weekly totals, next to the runs   *)
(* of Spec that compute it from their own counters.                        *)
(***************************************************************************)
\* weekly totals of the first n names, every total up to MaxWeeklyLoad
WeeklyTotals ==
    UNION {[Range(Slice(faculty_names, n)) -> 0..MaxWeeklyLoad] : n \in 0..MaxPool}

InitBalance ==
    /\ config = EmptyDict
    /\ time_slots = TimeSlotLabels
    /\ days = InitDays(config, DayNames)
    /\ calls_left = 0
    /\ IdleFrame
    /\ EmptyStore
    /\ fn_args \in WeeklyTotals
    /\ fn_result = << >>

ComputeBalance ==
    /\ pc[1] = "idle"
    /\ calls_left = 0
    /\ fn_result = << >>
    /\ fn_result' = <<BalanceOf(fn_args)>>
    /\ UNCHANGED <<objvars, dbvars, calls_left, framevars, timetables, fn_args>>

NextMetrics == Next \/ ComputeBalance

SpecMetrics == (Init \/ InitBalance) /\ [][NextMetrics]_vars

(***************************************************************************)
(* Properties.                                                             *)
(***************************************************************************)
\* the sessions of a grid as (day, slot, key) places
Places(g) ==
    UNION {UNION {{<<d, s, k>> : k \in DOMAIN g[d][s]} : s \in DOMAIN g[d]} : d \in DOMAIN g}

SessionAt(g, p) == g[p[1]][p[2]][p[3]]

SameDaySlot(p, q) == p[1] = q[1] /\ p[2] = q[2]

\* the grids a run holds or has returned
Grids(r) == {schedule[r]} \cup {timetables[r][i].schedule : i \in DOMAIN timetables[r]}

HasReason(entry, reason) == \E i \in DOMAIN entry.reasons : entry.reasons[i] = reason

\* a rejected attempt at (d, s) recorded with the reason
Rejected(r, d, s, reason) ==
    \E i \in DOMAIN conflicts[r] :
        /\ conflicts[r][i].day = d
        /\ conflicts[r][i].slot = s
        /\ HasReason(conflicts[r][i], reason)

ResourcesPresent == classrooms >= 1 /\ batches >= 1 /\ faculty_count >= 1

\* C1: with at least one room, batch and faculty member, no two sessions of a
\* grid, during the run or returned, share (day, slot, room).
C1_NoSharedRoom ==
    ResourcesPresent =>
        \A r \in Runs : \A g \in Grids(r) : \A p, q \in Places(g) :
            (p # q /\ SameDaySlot(p, q)) => SessionAt(g, p).room # SessionAt(g, q).room

\* two sessions stand in one (day, slot) and a draw of an occupied room there
\* was rejected
C1_Witness ==
    /\ ResourcesPresent
    /\ \E p, q \in Places(schedule[1]) :
           /\ p # q
           /\ SameDaySlot(p, q)
           /\ Rejected(1, p[1], p[2], "Room occupied")

\* C2: with at least one room, batch and faculty member, no two sessions of a
\* grid, during the run or returned, share (day, slot, batch).
C2_NoSharedBatch ==
    ResourcesPresent =>
        \A r \in Runs : \A g \in Grids(r) : \A p, q \in Places(g) :
            (p # q /\ SameDaySlot(p, q)) => SessionAt(g, p).batch # SessionAt(g, q).batch

\* two sessions stand in one (day, slot) and a draw of a committed batch there
\* was rejected
C2_Witness ==
    /\ ResourcesPresent
    /\ \E p, q \in Places(schedule[1]) :
           /\ p # q
           /\ SameDaySlot(p, q)
           /\ Rejected(1, p[1], p[2], "Batch has another class")

\* the sessions of grid g on day d taught by f
TaughtOn(g, d, f) ==
    IF d \in DOMAIN g
    THEN UNION {{<<d, s, k>> : k \in {j \in DOMAIN g[d][s] : g[d][s][j].faculty = f}} :
                   s \in DOMAIN g[d]}
    ELSE {}

\* C3: with resources present and a max daily load >= 0, no per-day counter
\* and no per-day number of sessions of a faculty member exceeds the max, and
\* with max daily load 0 nothing is placed.
C3_DailyLoadBounded ==
    (ResourcesPresent /\ max_daily_load >= 0) =>
        \A r \in Runs :
            /\ \A f \in DOMAIN faculty_load[r] : \A d \in DOMAIN faculty_load[r][f] :
                   /\ faculty_load[r][f][d] <= max_daily_load
                   /\ \A g \in Grids(r) : Cardinality(TaughtOn(g, d, f)) <= max_daily_load
            /\ max_daily_load = 0 =>
                   /\ total_classes_scheduled[r] = 0
                   /\ \A g \in Grids(r) : Places(g) = {}

\* a faculty member has reached a positive max on a day and a further draw
\* of that member on that day was rejected as overloaded
C3_Witness ==
    /\ ResourcesPresent
    /\ max_daily_load >= 1
    /\ \E f \in DOMAIN faculty_load[1] : \E d \in DaySet :
           /\ faculty_load[1][f][d] = max_daily_load
           /\ \E s \in SlotSet : Rejected(1, d, s, "Faculty overloaded")

\* C4: no faculty member is in two different sessions of one (day, slot).
C4_NoFacultyClash ==
    \A r \in Runs : \A g \in Grids(r) : \A p, q \in Places(g) :
        (p # q /\ SameDaySlot(p, q)) => SessionAt(g, p).faculty # SessionAt(g, q).faculty

\* two sessions stand in one (day, slot) and a draw of a faculty member
\* already teaching there was rejected for that reason alone
C4_Witness ==
    \E p, q \in Places(schedule[1]) :
        /\ p # q
        /\ SameDaySlot(p, q)
        /\ \E i \in DOMAIN conflicts[1] :
               /\ conflicts[1][i].day = p[1]
               /\ conflicts[1][i].slot = p[2]
               /\ conflicts[1][i].reasons = <<"Faculty conflict">>

\* the bounds of the placement loop, in every state
C5_Bounded ==
    \A r \in Runs :
        /\ attempts[r] <= AttemptBudget
        /\ subject_idx[r] <= Len(subjects)
        /\ attempts_made[r] <= subject_idx[r] * AttemptBudget
        /\ attempts_made[r] <= Len(subjects) * AttemptBudget
        /\ classes_per_week >= 0 => classes_scheduled_for_subject[r] <= classes_per_week
        /\ ResourcesPresent => (error[r] = "none" /\ pc[r] # "raised")

\* an attempt is made only while the subject is below target and the budget is
\* not used up, and the loop is left only when one of the two is reached
C5_LoopSteps ==
    \A r \in Runs :
        /\ attempts_made'[r] # attempts_made[r] =>
               /\ attempts_made'[r] = attempts_made[r] + 1
               /\ attempts'[r] = attempts[r] + 1
               /\ classes_scheduled_for_subject[r] < classes_per_week
               /\ attempts[r] < AttemptBudget
        /\ (pc[r] = "while" /\ pc'[r] = "for") =>
               \/ classes_scheduled_for_subject[r] >= classes_per_week
               \/ attempts[r] = AttemptBudget
        /\ (pc[r] = "while" /\ pc'[r] = "for" /\ classes_per_week >= 0) =>
               \/ classes_scheduled_for_subject[r] = classes_per_week
               \/ attempts[r] = AttemptBudget

\* the steps a run can still take: the positions left in the for loop and
\* in the while loop, and the calls left to start
StepsLeft(r) ==
    LET k == AttemptBudget + 2
        left == Len(subjects) - subject_idx[r]
    IN  CASE pc[r] = "for" -> left * k + 1
          [] pc[r] = "while" -> left * k + 2 + (AttemptBudget - attempts[r])
          [] OTHER -> 0

Variant == calls_left * (Len(subjects) * (AttemptBudget + 2) + 2) + StepsLeft(1) + StepsLeft(2)

Terminated(r) == pc[r] \in {"done", "raised"}

\* the for loop is over: the metrics are computed and the run returns or raises
AtMetrics(r) == pc[r] = "for" /\ subject_idx[r] = Len(subjects)

\* a run that is not over has a step to take
CanProceed(r) ==
    \/ Terminated(r)
    \/ AtMetrics(r)
    \/ ENABLED (Call(r) \/ NextSubject(r) \/ Attempt(r) \/ AttemptRaises(r) \/ ExitWhile(r))

\* C5: a run terminates (every step lowers a natural-number variant, and a run
\* that is not over can step); a subject gets at most AttemptBudget attempts and
\* the loop stops exactly at the target or at the budget; the run makes at most
\* subject_count x AttemptBudget attempts; for a target >= 0 the placed count never
\* exceeds it; with resources present the run ends without an error.
C5_Terminates ==
    /\ [](C5_Bounded /\ Variant >= 0 /\ CanProceed(1))
    /\ [][C5_LoopSteps /\ Variant' < Variant]_vars

\* a run has returned without an error although its last subject used up the
\* budget below target
C5_Witness ==
    /\ ResourcesPresent
    /\ pc[1] = "done"
    /\ error[1] = "none"
    /\ attempts[1] = AttemptBudget
    /\ classes_scheduled_for_subject[1] < classes_per_week
    /\ Len(timetables[1]) = 1

\* a configuration the specification rejects: no subject or a negative field
InvalidConfig ==
    \/ Len(subjects) = 0
    \/ classrooms < 0
    \/ batches < 0
    \/ faculty_count < 0
    \/ max_daily_load < 0
    \/ classes_per_week < 0

\* an attempt commits exactly one session or appends exactly one record
OneOutcome(r) ==
    \/ /\ total_classes_scheduled'[r] = total_classes_scheduled[r] + 1
       /\ Cardinality(Places(schedule'[r])) = Cardinality(Places(schedule[r])) + 1
       /\ conflicts'[r] = conflicts[r]
    \/ /\ Len(conflicts'[r]) = Len(conflicts[r]) + 1
       /\ total_classes_scheduled'[r] = total_classes_scheduled[r]
       /\ schedule'[r] = schedule[r]

\* attempts = placed + rejected, and a returned conflict_count is the length of
\* the returned conflicts list
AttemptsAccounted(r) ==
    /\ attempts_made[r] = total_classes_scheduled[r] + Len(conflicts[r])
    /\ \A i \in DOMAIN timetables[r] :
           timetables[r][i].metrics.conflict_count = Len(timetables[r][i].conflicts)

\* C6: for every configuration without a negative field and with a subject,
\* every attempt either commits exactly one session or appends exactly one
\* rejected-attempt record, so attempts = placed + rejected at every point, and
\* a returned conflict_count is the length of the returned conflicts list.
C6_OneOutcomePerAttempt ==
    /\ [][\A r \in Runs :
              (~InvalidConfig /\ attempts_made'[r] = attempts_made[r] + 1) => OneOutcome(r)]_vars
    /\ [](~InvalidConfig => \A r \in Runs : AttemptsAccounted(r))

LowUtilizationAdvisory ==
    "Consider reducing the number of classrooms or increasing class frequency"

\* C7: with room count 0, one subject and a target >= 1 (batches and faculty
\* present, max daily load >= 0), the run raises nothing, every attempt is rejected, nothing is placed,
\* the returned conflict_count is the whole budget and the suggestions hold the
\* low-utilization advisory.
C7_ZeroRoomsCompletes ==
    (classrooms = 0 /\ Len(subjects) = 1 /\ classes_per_week >= 1
        /\ batches >= 1 /\ faculty_count >= 1 /\ max_daily_load >= 0) =>
        \A r \in Runs :
            /\ error[r] = "none"
            /\ pc[r] # "raised"
            /\ total_classes_scheduled[r] = 0
            /\ Len(conflicts[r]) = attempts_made[r]
            /\ \A i \in DOMAIN timetables[r] :
                   /\ timetables[r][i].metrics.conflict_count = AttemptBudget
                   /\ LowUtilizationAdvisory
                          \in Range(suggest_improvements(timetables[r][i].metrics))

\* C8: with batch count 0 or faculty count 0 (rooms present, a subject with a
\* target >= 1, no negative field), the run raises nothing and places nothing: every attempt ends as
\* a rejected-attempt record.
C8_ZeroBatchesOrFacultyCompletes ==
    ((batches = 0 \/ faculty_count = 0) /\ classrooms >= 1
        /\ Len(subjects) >= 1 /\ classes_per_week >= 1 /\ ~InvalidConfig) =>
        \A r \in Runs :
            /\ error[r] = "none"
            /\ pc[r] # "raised"
            /\ total_classes_scheduled[r] = 0
            /\ Len(conflicts[r]) = attempts_made[r]

\* C9: for an empty subject list or a negative numeric field no attempt is made
\* and no Schedule is returned: the call ends with InvalidConfigError.
C9_InvalidConfigRejected ==
    InvalidConfig =>
        \A r \in Runs :
            /\ attempts_made[r] = 0
            /\ timetables[r] = << >>
            /\ pc[r] # "while"
            /\ Terminated(r) => error[r] = "InvalidConfigError"

\* the local state of a run and what it has returned
Frame(r) ==
    <<pc[r], option_num[r], subject_idx[r], classes_scheduled_for_subject[r], attempts[r],
      total_classes_scheduled[r], schedule[r], room_usage[r], batch_schedule[r],
      faculty_load[r], conflicts[r], attempts_made[r], draw[r], faculty_slots[r],
      error[r], timetables[r]>>

\* a call has just set up its tracking structures
JustCalled(r) == pc[r] = "for" /\ subject_idx[r] = 0

\* empty grid, empty room and batch sets for every (day, slot), zero counters
\* for every faculty member of the pool, no rejected attempt, nothing placed
StartsEmpty(r) ==
    /\ DOMAIN schedule[r] = DaySet
    /\ Places(schedule[r]) = {}
    /\ \A d \in DaySet : \A s \in SlotSet :
           room_usage[r][d][s] = {} /\ batch_schedule[r][d][s] = {}
    /\ DOMAIN faculty_load[r] = Range(FacultyPool)
    /\ \A f \in Range(FacultyPool) : \A d \in DaySet : faculty_load[r][f][d] = 0
    /\ conflicts[r] = << >>
    /\ total_classes_scheduled[r] = 0

IsPrefix(s, t) == Len(s) <= Len(t) /\ SubSeq(t, 1, Len(s)) = s

\* C10: every call starts from empty structures whatever ran before; no step
\* writes the configuration; a step of one run leaves the local state and the
\* returned results of every other run unchanged, and results once returned stay
\* as they are.
C10_RunsIndependent ==
    /\ [](\A r \in Runs : JustCalled(r) => StartsEmpty(r))
    /\ [][/\ objvars' = objvars
          /\ \A r, q \in Runs : (r # q /\ Frame(r)' # Frame(r)) => Frame(q)' = Frame(q)
          /\ \A r \in Runs : IsPrefix(timetables[r], timetables'[r])]_vars

\* run 1 has returned a schedule with sessions and rejected attempts and is in
\* its next call, which has placed and has rejected a draw; run 2, in between,
\* holds a different grid
C10_Witness ==
    /\ Len(timetables[1]) >= 1
    /\ Places(timetables[1][1].schedule) # {}
    /\ timetables[1][1].conflicts # << >>
    /\ pc[1] = "while"
    /\ pc[2] = "while"
    /\ Places(schedule[1]) # {}
    /\ Places(schedule[2]) # {}
    /\ schedule[1] # schedule[2]
    /\ conflicts[1] # << >>

\* the advisories, in the order in which suggest_improvements tests for them
BalanceAdvisory == "Redistribute faculty workload for better balance"

ConflictAdvisory == "Review and resolve scheduling conflicts manually"

ScoreAdvisory == "Consider adjusting time slots or adding more resources"

AdvisoryOrder ==
    <<LowUtilizationAdvisory, BalanceAdvisory, ConflictAdvisory, ScoreAdvisory>>

\* which of the four conditions hold of metrics m (in tenths)
Fires(m) ==
    <<m.classroom_utilization < 700, m.faculty_load_balance < 800,
      m.conflict_count > 5, m.optimization_score < 850>>

ExpectedAdvisories(m) ==
    LET Holds(a) == \E i \in 1..4 : AdvisoryOrder[i] = a /\ Fires(m)[i]
    IN  SelectSeq(AdvisoryOrder, Holds)

MetricsOf(u, b, c, s) ==
    [classroom_utilization |-> u, faculty_load_balance |-> b,
     conflict_count |-> c, optimization_score |-> s]

\* C11: suggest_improvements returns exactly the advisories whose condition
\* holds, each condition on its own, in the order utilization < 70,
\* load balance < 80, conflicts > 5, score < 85; the comparisons are strict, so
\* the metrics (70, 80, 5, 85) yield nothing; (50, 90, 2, 90) yields the
\* low-utilization advisory alone and (90, 60, 10, 70) the balance, conflict
\* and score advisories in that order.
C11_ExactAdvisories ==
    fn_result # << >> =>
        /\ fn_result[1] = ExpectedAdvisories(fn_args)
        /\ fn_args = MetricsOf(700, 800, 5, 850) => fn_result[1] = << >>
        /\ fn_args = MetricsOf(500, 900, 2, 900) => fn_result[1] = <<LowUtilizationAdvisory>>
        /\ fn_args = MetricsOf(900, 600, 10, 700)
               => fn_result[1] = <<BalanceAdvisory, ConflictAdvisory, ScoreAdvisory>>

\* the call on (90, 60, 10, 70) has returned its three advisories
C11_Witness ==
    /\ fn_args = MetricsOf(900, 600, 10, 700)
    /\ fn_result = <<<<BalanceAdvisory, ConflictAdvisory, ScoreAdvisory>>>>

\* C12: with the utilization and the load balance held fixed, one more
\* rejected attempt strictly lowers the optimization score while the conflict
\* count is below 20 and leaves it unchanged, at the floor where the conflict
\* term is 0, from 20 on; so the score never increases with the conflict count.
C12_ScoreMonotone ==
    [][(fn_result # << >> /\ fn_result' # << >>) =>
           /\ fn_args'.conflict_count = fn_args.conflict_count + 1
           /\ fn_result'[1] <= fn_result[1]
           /\ fn_args.conflict_count < 20 => fn_result'[1] < fn_result[1]
           /\ fn_args.conflict_count >= 20 =>
                  /\ fn_result'[1] = fn_result[1]
                  /\ ConflictTerm(fn_args.conflict_count) = 0]_vars

\* the score of a half-used grid with balance 100 after 21 rejected attempts
C12_Witness ==
    /\ fn_args = [occupied |-> 2, total |-> 4, balance |-> 100, conflict_count |-> 21]
    /\ fn_result = <<450>>

\* one subject with a weekly target of 0 and at least one room
SingleSubjectNoTarget ==
    /\ Len(subjects) = 1
    /\ classes_per_week = 0
    /\ classrooms >= 1

\* C13: with a single subject, a weekly target of 0 and at least one room, no
\* attempt is made and the run returns: the grid holds every day with no
\* session, the utilization is 0, conflict_count and total_classes_scheduled
\* are 0, the load balance is 100 and the score is 0.3 x 100 + 0.4 x 100 = 70
\* (1000 and 700 in tenths).
C13_NoTargetNoAttempt ==
    SingleSubjectNoTarget =>
        \A r \in Runs :
            /\ attempts_made[r] = 0
            /\ conflicts[r] = << >>
            /\ pc[r] # "raised"
            /\ \A i \in DOMAIN timetables[r] :
                   LET t == timetables[r][i]
                   IN  /\ DOMAIN t.schedule = DaySet
                       /\ Places(t.schedule) = {}
                       /\ t.conflicts = << >>
                       /\ t.metrics.classroom_utilization = 0
                       /\ t.metrics.conflict_count = 0
                       /\ t.metrics.total_classes_scheduled = 0
                       /\ t.metrics.faculty_load_balance = 1000
                       /\ t.metrics.optimization_score = 3 * 100 + 4 * 100

\* such a run, with batches and faculty to draw from, has returned
C13_Witness ==
    /\ SingleSubjectNoTarget
    /\ ~InvalidConfig
    /\ batches >= 1
    /\ FacultyPool # << >>
    /\ pc[1] = "done"
    /\ Len(timetables[1]) = 1

\* subjects [Math], 1 room, 1 batch, 1 faculty member, target 1, daily load 6,
\* a 6-day week
OneSessionConfig ==
    [subject_list |-> <<"Math">>, classrooms |-> 1, batches |-> 1, faculty_count |-> 1,
     max_load |-> 6, classes_per_week |-> 1, days_week |-> 6]

\* C14: for subjects [Math], 1 room, 1 batch, 1 faculty member, target 1, load 6
\* and 6 days, every run places the session on its first attempt: no attempt is
\* rejected, an attempt made is a session placed, and the run returns after
\* exactly one attempt with exactly one session in the grid, no rejected
\* attempt and 1 of the 36 (day, slot, room) cells occupied.
C14_FirstAttemptPlaces ==
    config = OneSessionConfig =>
        /\ total_possible_slots = 36
        /\ pc[1] # "raised"
        /\ conflicts[1] = << >>
        /\ attempts_made[1] <= 1
        /\ total_classes_scheduled[1] = attempts_made[1]
        /\ Cardinality(Places(schedule[1])) = attempts_made[1]
        /\ (pc[1] = "while" /\ attempts_made[1] = 0) => LoopCondition(1)
        /\ (pc[1] = "while" /\ attempts_made[1] = 1) => ~LoopCondition(1)
        /\ pc[1] = "done" =>
               /\ attempts_made[1] = 1
               /\ Len(timetables[1]) = 1
               /\ Cardinality(Places(timetables[1][1].schedule)) = 1
               /\ timetables[1][1].conflicts = << >>
               /\ timetables[1][1].metrics.conflict_count = 0
               /\ timetables[1][1].metrics.total_classes_scheduled = 1
               /\ OccupiedCells(1) = 1
               /\ timetables[1][1].metrics.classroom_utilization = 28

\* the run has returned with its session in the last slot of Saturday
C14_Witness ==
    /\ config = OneSessionConfig
    /\ pc[1] = "done"
    /\ Len(timetables[1]) = 1
    /\ DOMAIN timetables[1][1].schedule["Saturday"] = {"3:15-4:15"}

\* a step of run r that is one pass of the while body without an exception
AttemptStep(r) ==
    /\ pc[r] = "while"
    /\ pc'[r] = "while"
    /\ attempts_made'[r] = attempts_made[r] + 1

\* an attempt that placed nothing
RejectedStep(r) ==
    /\ AttemptStep(r)
    /\ \/ conflicts'[r] # conflicts[r]
       \/ total_classes_scheduled'[r] = total_classes_scheduled[r]

\* C15: a rejected attempt leaves the grid, the room sets, the batch sets,
\* every faculty daily counter, the subject's placed count and
\* total_classes_scheduled unchanged, and the conflicts list grows by exactly
\* one record, appended at its end.
C15_RejectChangesOnlyConflicts ==
    [][\A r \in Runs :
           RejectedStep(r) =>
               /\ schedule'[r] = schedule[r]
               /\ room_usage'[r] = room_usage[r]
               /\ batch_schedule'[r] = batch_schedule[r]
               /\ faculty_load'[r] = faculty_load[r]
               /\ classes_scheduled_for_subject'[r] = classes_scheduled_for_subject[r]
               /\ total_classes_scheduled'[r] = total_classes_scheduled[r]
               /\ Len(conflicts'[r]) = Len(conflicts[r]) + 1
               /\ SubSeq(conflicts'[r], 1, Len(conflicts[r])) = conflicts[r]]_vars

\* a run that has placed a session and has rejected two draws since
C15_Witness ==
    /\ pc[1] = "while"
    /\ total_classes_scheduled[1] = 1
    /\ Len(conflicts[1]) = 2
    /\ attempts[1] = 3

\* an attempt that placed a session
PlacedStep(r) ==
    /\ AttemptStep(r)
    /\ total_classes_scheduled'[r] = total_classes_scheduled[r] + 1

\* the sessions of grid g are in grid h, unchanged
GridKept(g, h) ==
    /\ Places(g) \subseteq Places(h)
    /\ \A q \in Places(g) : SessionAt(h, q) = SessionAt(g, q)

\* occupancy sets u and v agree outside (day, slot)
SameElsewhere(u, v, day, slot) ==
    \A d \in DOMAIN u : \A s \in DOMAIN u[d] :
        (d # day \/ s # slot) => v[d][s] = u[d][s]

\* the step of run r puts exactly the session at place p into the grid and
\* marks its room, its batch and its faculty member
PlacesAt(r, p) ==
    LET day == p[1]
        slot == p[2]
        x == SessionAt(schedule'[r], p)
    IN  /\ p \notin Places(schedule[r])
        /\ Places(schedule'[r]) = Places(schedule[r]) \cup {p}
        /\ GridKept(schedule[r], schedule'[r])
        /\ x.room \notin room_usage[r][day][slot]
        /\ room_usage'[r][day][slot] = room_usage[r][day][slot] \cup {x.room}
        /\ SameElsewhere(room_usage[r], room_usage'[r], day, slot)
        /\ x.batch \notin batch_schedule[r][day][slot]
        /\ batch_schedule'[r][day][slot] = batch_schedule[r][day][slot] \cup {x.batch}
        /\ SameElsewhere(batch_schedule[r], batch_schedule'[r], day, slot)
        /\ faculty_load'[r][x.faculty][day] = faculty_load[r][x.faculty][day] + 1
        /\ \A f \in DOMAIN faculty_load[r] : \A d \in DOMAIN faculty_load[r][f] :
               (f # x.faculty \/ d # day) => faculty_load'[r][f][d] = faculty_load[r][f][d]

\* within a run nothing is taken back
OnlyGrows(r) ==
    /\ GridKept(schedule[r], schedule'[r])
    /\ \A d \in DOMAIN room_usage[r] : \A s \in DOMAIN room_usage[r][d] :
           /\ room_usage[r][d][s] \subseteq room_usage'[r][d][s]
           /\ batch_schedule[r][d][s] \subseteq batch_schedule'[r][d][s]
    /\ \A f \in DOMAIN faculty_load[r] : \A d \in DOMAIN faculty_load[r][f] :
           faculty_load[r][f][d] <= faculty_load'[r][f][d]

\* C16: a successful placement adds exactly one session to grid[day][slot],
\* adds its room to the room set and its batch to the batch set of that
\* (day, slot), and raises its faculty member's counter for that day by exactly
\* 1; every other cell and counter is unchanged.  So from the entry of a run
\* to its end the grid and the occupancy sets only grow, no counter decreases
\* and no placed session is removed or changed.
C16_PlacementAddsOneSession ==
    [][\A r \in Runs :
           /\ PlacedStep(r) => \E p \in Places(schedule'[r]) : PlacesAt(r, p)
           /\ pc[r] \in {"for", "while"} => OnlyGrows(r)]_vars

\* two sessions share a (day, slot)
C16_Witness ==
    /\ pc[1] = "while"
    /\ \E p, q \in Places(schedule[1]) : p # q /\ SameDaySlot(p, q)

ReasonOrder ==
    <<"Room occupied", "Batch has another class", "Faculty overloaded", "Faculty conflict">>

\* which of the four predicates fail for the draw x in the state of run r
Fails(r, x) ==
    <<x.room_name \in room_usage[r][x.day][x.slot],
      x.batch_name \in batch_schedule[r][x.day][x.slot],
      faculty_load[r][x.faculty][x.day] >= max_daily_load,
      \E p \in Places(schedule[r]) :
          p[1] = x.day /\ p[2] = x.slot /\ SessionAt(schedule[r], p).faculty = x.faculty>>

ExpectedReasons(r, x) ==
    LET Failing(reason) == \E i \in 1..4 : ReasonOrder[i] = reason /\ Fails(r, x)[i]
    IN  SelectSeq(ReasonOrder, Failing)

\* C17: every attempt evaluates all four predicates on its draw: it places
\* only if none fails, and otherwise its record, the last of conflicts, carries
\* the subject, the drawn day and slot and a non-empty reasons list with exactly
\* one reason for each failing predicate and none for a holding one, in the
\* order room occupied, batch has another class, faculty overloaded, faculty
\* conflict.
C17_ReasonsForEveryFailure ==
    [][\A r \in Runs :
           AttemptStep(r) =>
               LET x == draw'[r][1]
                   e == conflicts'[r][Len(conflicts'[r])]
               IN  /\ PlacedStep(r) <=> ExpectedReasons(r, x) = << >>
                   /\ PlacedStep(r) <=> ~RejectedStep(r)
                   /\ RejectedStep(r) =>
                          /\ e.subject = subjects[subject_idx[r]]
                          /\ e.day = x.day
                          /\ e.slot = x.slot
                          /\ e.reasons # << >>
                          /\ e.reasons = ExpectedReasons(r, x)]_vars

\* the latest draw was rejected for all four reasons at once
C17_Witness ==
    /\ pc[1] = "while"
    /\ conflicts[1] # << >>
    /\ LET e == conflicts[1][Len(conflicts[1])]
       IN  /\ e.reasons = ReasonOrder
           /\ e.day = draw[1][1].day
           /\ e.slot = draw[1][1].slot
           /\ ExpectedReasons(1, draw[1][1]) = e.reasons

\* the sessions of grid g at (d, s)
SessionsAt(g, d, s) ==
    IF d \in DOMAIN g /\ s \in DOMAIN g[d] THEN {g[d][s][k] : k \in DOMAIN g[d][s]} ELSE {}

\* C18: in every state of a run the tracking structures agree with the grid:
\* they cover every day, slot and faculty member of the pool; for every
\* (day, slot) the room set is exactly the set of rooms of the sessions in
\* grid[day][slot] and the batch set exactly the set of their batches; for every
\* faculty member f and day d the counter faculty_load[f][d] is the number of
\* sessions in the grid on day d taught by f.
C18_TrackingAgreesWithGrid ==
    \A r \in Runs :
        pc[r] # "idle" =>
            /\ DOMAIN room_usage[r] = DaySet
            /\ DOMAIN batch_schedule[r] = DaySet
            /\ DOMAIN faculty_load[r] = Range(FacultyPool)
            /\ \A p \in Places(schedule[r]) :
                   /\ p[1] \in DaySet
                   /\ p[2] \in SlotSet
                   /\ SessionAt(schedule[r], p).faculty \in Range(FacultyPool)
            /\ \A d \in DaySet :
                   /\ DOMAIN room_usage[r][d] = SlotSet
                   /\ DOMAIN batch_schedule[r][d] = SlotSet
                   /\ \A s \in SlotSet :
                          /\ room_usage[r][d][s] = {x.room : x \in SessionsAt(schedule[r], d, s)}
                          /\ batch_schedule[r][d][s] = {x.batch : x \in SessionsAt(schedule[r], d, s)}
            /\ \A f \in Range(FacultyPool) :
                   /\ DOMAIN faculty_load[r][f] = DaySet
                   /\ \A d \in DaySet :
                          faculty_load[r][f][d] = Cardinality(TaughtOn(schedule[r], d, f))

\* a faculty member teaches twice on one day, in a grid of three sessions
C18_Witness ==
    /\ pc[1] = "while"
    /\ Cardinality(Places(schedule[1])) = 3
    /\ \E f \in Range(FacultyPool) : \E d \in DaySet : faculty_load[1][f][d] = 2

\* the sum of all counters of faculty_load
TotalLoad(r) == SumOver(faculty_loads(r), DOMAIN faculty_load[r])

\* C19: no commit overwrites a grid entry: every session is stored under the
\* composite key of its subject, batch and room, two sessions of one (day, slot)
\* differ in their room, and so the number of sessions in the grid, running or
\* returned, equals total_classes_scheduled, the sum of the sizes of the room
\* occupancy sets, and the sum of all faculty loads.
C19_NoOverwrite ==
    \A r \in Runs :
        /\ pc[r] # "idle" =>
               LET placed == Places(schedule[r])
               IN
               /\ \A p \in placed :
                      LET x == SessionAt(schedule[r], p)
                      IN  p[3] = ClassId(x.subject, x.batch, x.room)
               /\ \A p, q \in placed :
                      (SameDaySlot(p, q) /\ p # q) =>
                          SessionAt(schedule[r], p).room # SessionAt(schedule[r], q).room
               /\ Cardinality(placed) = total_classes_scheduled[r]
               /\ OccupiedCells(r) = total_classes_scheduled[r]
               /\ TotalLoad(r) = total_classes_scheduled[r]
        /\ \A i \in DOMAIN timetables[r] :
               Cardinality(Places(timetables[r][i].schedule))
                   = timetables[r][i].metrics.total_classes_scheduled

\* a returned grid whose two sessions share a (day, slot)
C19_Witness ==
    /\ pc[1] = "done"
    /\ Len(timetables[1]) = 1
    /\ timetables[1][1].metrics.total_classes_scheduled = 2
    /\ \E p, q \in Places(timetables[1][1].schedule) : p # q /\ SameDaySlot(p, q)

\* C20: the scan of grid[day][slot] for the drawn faculty member and the
\* lookup in a per-(day, slot) set of committed faculty, run side by side on
\* the same draws, answer alike on every attempt: the variant accepts exactly
\* the attempts that are placed and gives a rejected attempt the reasons that
\* are recorded, and after every step its set at each (day, slot) holds exactly
\* the faculty of the sessions of grid[day][slot], so both build the same grid.
C20_ScanEqualsLookup ==
    [][\A r \in Runs :
           /\ AttemptStep(r) =>
                  LET x == draw'[r][1]
                      e == conflicts'[r][Len(conflicts'[r])]
                  IN  /\ FacultyBusyLookup(r, x.day, x.slot, x.faculty)
                             <=> FacultyBusy(r, x.day, x.slot, x.faculty)
                      /\ CanScheduleLookup(r, x.day, x.slot, x.room_name, x.batch_name, x.faculty)
                             <=> PlacedStep(r)
                      /\ RejectedStep(r) =>
                             e.reasons = ConflictReasonsLookup(r, x.day, x.slot, x.room_name,
                                                               x.batch_name, x.faculty)
           /\ pc'[r] # "idle" =>
                  \A d \in DaySet : \A s \in SlotSet :
                      faculty_slots'[r][d][s] = {x.faculty : x \in SessionsAt(schedule'[r], d, s)}]_vars

\* the latest draw was rejected because its faculty member, and nothing else,
\* was taken at that (day, slot)
C20_Witness ==
    /\ pc[1] = "while"
    /\ conflicts[1] # << >>
    /\ conflicts[1][Len(conflicts[1])].reasons = <<"Faculty conflict">>
    /\ conflicts[1][Len(conflicts[1])].day = draw[1][1].day
    /\ conflicts[1][Len(conflicts[1])].slot = draw[1][1].slot
    /\ draw[1][1].faculty \in faculty_slots[1][draw[1][1].day][draw[1][1].slot]
    /\ draw[1][1].room_name \notin room_usage[1][draw[1][1].day][draw[1][1].slot]

\* the spread of the weekly totals w: the largest minus the smallest
Spread(w) ==
    CHOOSE n \in 0..(MaxWeeklyLoad + 1) :
        \E f, g \in DOMAIN w :
            /\ n = w[f] - w[g]
            /\ \A h \in DOMAIN w : w[g] <= w[h] /\ w[h] <= w[f]

\* the balance that the weekly totals w call for, in percent
ExpectedBalance(w) ==
    IF DOMAIN w = {} THEN 100
    ELSE IF 5 * Spread(w) >= 100 THEN 0
    ELSE 100 - 5 * Spread(w)

\* the weekly totals of a grid: one per member of the pool, sessions or not
GridTotals(g) ==
    [f \in Range(FacultyPool) |->
        Cardinality({p \in Places(g) : SessionAt(g, p).faculty = f})]

\* C21: the load balance is max(0, 100 - 5 x (max load - min load)) over the
\* weekly totals of every member of the truncated pool, members without a
\* session included: it lies in [0, 100], is 100 when nobody has any load or
\* the pool is empty, and is 0 when the spread is 20 or more; every returned
\* timetable reports that value (in tenths) for the sessions of its grid.
C21_LoadBalance ==
    /\ fn_result # << >> =>
           /\ fn_result[1] = ExpectedBalance(fn_args)
           /\ fn_result[1] \in 0..100
           /\ (\A f \in DOMAIN fn_args : fn_args[f] = 0) => fn_result[1] = 100
           /\ (\E f, g \in DOMAIN fn_args : fn_args[f] - fn_args[g] >= 20) => fn_result[1] = 0
    /\ \A r \in Runs : \A i \in DOMAIN timetables[r] :
           /\ timetables[r][i].metrics.faculty_load_balance
                  = 10 * ExpectedBalance(GridTotals(timetables[r][i].schedule))
           /\ timetables[r][i].metrics.faculty_load_balance \in 0..1000

\* a spread of exactly 20 between two members has given the balance 0
C21_Witness ==
    /\ DOMAIN fn_args = {"Dr. Smith", "Dr. Johnson"}
    /\ fn_args["Dr. Smith"] = 21
    /\ fn_args["Dr. Johnson"] = 1
    /\ fn_result = <<0>>

\* the room names that a draw can give
RoomNames == {RoomName(n) : n \in 1..classrooms}

\* C22: with at least one room, the rooms occupied in a (day, slot) are room
\* names of the configuration, so never more than the room count; the occupied
\* cells never exceed the cell total, and the classroom utilization and the
\* optimization score of every returned timetable lie in [0, 100] (0..1000 in
\* tenths).
C22_MetricsInRange ==
    classrooms >= 1 =>
        \A r \in Runs :
            /\ \A d \in DOMAIN room_usage[r] : \A s \in DOMAIN room_usage[r][d] :
                   /\ room_usage[r][d][s] \subseteq RoomNames
                   /\ Cardinality(room_usage[r][d][s]) <= classrooms
            /\ pc[r] # "idle" =>
                   /\ total_possible_slots >= 1
                   /\ OccupiedCells(r) <= total_possible_slots
            /\ \A i \in DOMAIN timetables[r] :
                   /\ timetables[r][i].metrics.classroom_utilization \in 0..1000
                   /\ timetables[r][i].metrics.optimization_score \in 0..1000

\* a run has filled every cell without a rejected attempt: utilization and
\* score are both 100
C22_Witness ==
    /\ classrooms >= 1
    /\ Len(timetables[1]) = 1
    /\ timetables[1][1].metrics.classroom_utilization = 1000
    /\ timetables[1][1].metrics.optimization_score = 1000

\* C23: for a faculty count c >= 0 the pool is the first min(c, 18) names of
\* the list of 18, all distinct; the load counters cover exactly the pool and
\* every session, running or returned, is taught by a member of it; a count
\* above 18, the default 30 included, is cut to the 18 names and the run, given
\* a room and a batch, ends without an error.
C23_PoolTruncated ==
    faculty_count >= 0 =>
        /\ Len(faculty_names) = 18
        /\ Len(FacultyPool) = Min(faculty_count, 18)
        /\ Cardinality(Range(FacultyPool)) = Min(faculty_count, 18)
        /\ \A i \in DOMAIN FacultyPool : FacultyPool[i] = faculty_names[i]
        /\ \A r \in Runs :
               /\ pc[r] # "idle" => DOMAIN faculty_load[r] = Range(FacultyPool)
               /\ \A g \in Grids(r) : \A p \in Places(g) :
                      SessionAt(g, p).faculty \in Range(FacultyPool)
               /\ (faculty_count > 18 /\ classrooms >= 1 /\ batches >= 1) =>
                      /\ Len(FacultyPool) = 18
                      /\ pc[r] # "raised"
                      /\ error[r] = "none"

\* without a configured count (default 30) a run has returned a session
\* taught by the last of the 18 names
C23_Witness ==
    /\ "faculty_count" \notin DOMAIN config
    /\ faculty_count = 30
    /\ pc[1] = "done"
    /\ \E p \in Places(timetables[1][1].schedule) :
           SessionAt(timetables[1][1].schedule, p).faculty = "Dr. Martinez"

ApprovedRows(rows) == {i \in DOMAIN rows : rows[i] = "approved"}

\* C24: at most one stored timetable has status 'approved', whatever requests
\* came before: an approval archives every approved row before it marks the
\* selected one, so that its transaction holds no approved row after the first
\* update and at most the selected one after the second; rows are created
\* with status 'draft', and rows once stored keep their id.
C24_AtMostOneApproved ==
    [][/\ Cardinality(ApprovedRows(stored')) <= 1
       /\ Len(stored') >= Len(stored)
       /\ \A i \in DOMAIN stored' : i \notin DOMAIN stored => stored'[i] = "draft"
       /\ \A h \in Handlers :
              /\ tx'[h].pc = "archived" => ApprovedRows(tx'[h].view) = {}
              /\ tx'[h].pc = "selected" =>
                     ApprovedRows(tx'[h].view) = {tx'[h].timetable_id} \cap DOMAIN stored
              /\ (tx[h].pc = "selected" /\ tx'[h].pc = "idle") =>
                     /\ ApprovedRows(stored') = {tx[h].timetable_id} \cap DOMAIN stored
                     /\ \A i \in ApprovedRows(stored) \ {tx[h].timetable_id} :
                            stored'[i] = "archived"]_vars

\* row 5 is approved after row 2 was: row 2 is archived
C24_Witness ==
    /\ Len(stored) = 6
    /\ stored[2] = "archived"
    /\ stored[5] = "approved"
    /\ ApprovedRows(stored) = {5}

=============================================================================
